---- MODULE Spec2Model ----
(***************************************************************************)
(* Model of util/transshipment2_utils.py: solve_transshipment_problem      *)
(* builds a three-tier transshipment linear program from its inputs, hands *)
(* it to the LP solver, extracts the result and optionally plots it.       *)
(*                                                                         *)
(* The linear program is kept as data (variables, an objective expression, *)
(* a list of constraints), exactly as the code adds it to the problem      *)
(* object.  The solver call is modelled by its contract: on a feasible     *)
(* problem it leaves an optimal solution in the variables, on an           *)
(* infeasible one it leaves some values and only reports a status, which   *)
(* the code discards.  All data are integers; the constraint matrix is a   *)
(* node-arc incidence matrix, so every basic optimal solution the solver   *)
(* can return is integral and bounded by the total supply.                 *)
(***************************************************************************)
EXTENDS Integers, Sequences, FiniteSets, TLC

\* Bounds of the explored inputs.
MaxSupply == 1
MaxDemand == 1
MaxCost == 1

VARIABLES
    nodes,          \* input: [sources, transshipments, destinations], each a list
    supply,         \* input: source -> units available
    demand,         \* input: destination -> units required
    cost,           \* input: dict keyed by (i, j) pairs
    plot_network,   \* input flag
    plot_bar_chart, \* input flag
    pc,             \* position in solve_transshipment_problem
    flow,           \* dict (i, j) -> LpVariable
    objective,      \* the problem's objective expression
    constraints,    \* the problem's constraints, in the order added
    varValue,       \* LpVariable.varValue of the variables that have one
    results_df,     \* rows (Variable, Value)
    total_cost,     \* value of the objective
    ret,            \* the returned pair, {} while nothing is returned
    err,            \* the exception that left the function, "none" if none
    trace           \* library calls made so far, in order

vars == <<nodes, supply, demand, cost, plot_network, plot_bar_chart, pc, flow,
          objective, constraints, varValue, results_df, total_cost, ret, err,
          trace>>

inputs == <<nodes, supply, demand, cost, plot_network, plot_bar_chart>>

----------------------------------------------------------------------------
\* Helpers

Range(s) == {s[n] : n \in 1..Len(s)}

RECURSIVE SumFn(_, _)
SumFn(S, f) ==
    IF S = {} THEN 0
    ELSE LET v == CHOOSE w \in S : TRUE IN f[v] + SumFn(S \ {v}, f)

\* Coefficient of variable v in an affine expression (absent means 0).
Coef(e, v) == IF v \in DOMAIN e THEN e[v] ELSE 0

\* Sum of e[v] * x[v] over the variables v in S.
RECURSIVE Dot(_, _, _)
Dot(S, e, x) ==
    IF S = {} THEN 0
    ELSE LET v == CHOOSE w \in S : TRUE IN e[v] * x[v] + Dot(S \ {v}, e, x)

\* Value of an affine expression at the assignment x.
Eval(e, x) == Dot(DOMAIN e, e, x)

\* Sum of two affine expressions; terms that cancel are kept out.
AddExpr(a, b) ==
    LET D == {v \in DOMAIN a \cup DOMAIN b : Coef(a, v) + Coef(b, v) # 0}
    IN  [v \in D |-> Coef(a, v) + Coef(b, v)]

\* The expression multiplied by the number c; c = 0 gives the empty expression.
ScaleExpr(c, e) == IF c = 0 THEN << >> ELSE [v \in DOMAIN e |-> c * e[v]]

Sources == Range(nodes.sources)
Transshipments == Range(nodes.transshipments)
Destinations == Range(nodes.destinations)

----------------------------------------------------------------------------
\* Inputs

\* Node lists in the naming of the repository's networks (F*, XD*, DC*), and
\* one network whose source is not among the plotted positions.
NodeConfigs ==
    { [sources |-> <<"F1", "F2">>, transshipments |-> <<"XD1">>,
       destinations |-> <<"DC1">>],
      [sources |-> <<"F1">>, transshipments |-> <<"XD1", "XD2">>,
       destinations |-> <<"DC1">>],
      [sources |-> <<"F1">>, transshipments |-> <<"XD1">>,
       destinations |-> <<"DC1", "DC2">>],
      [sources |-> <<"P1">>, transshipments |-> <<"XD1">>,
       destinations |-> <<"DC1">>] }

\* The complete three-tier arc set of a network.
ThreeTier(n) ==
    (Range(n.sources) \X Range(n.transshipments))
        \cup (Range(n.transshipments) \X Range(n.destinations))

\* An arc outside the three-tier structure: source directly to destination.
DirectArcs(n) == {<<n.sources[1], n.destinations[1]>>}

\* Key sets of the cost dict: complete, one arc missing, one arc too many.
KeySets(n) ==
    {ThreeTier(n)}
        \cup {ThreeTier(n) \ {a} : a \in ThreeTier(n)}
        \cup {ThreeTier(n) \cup {e} : e \in DirectArcs(n)}

\* The nodes plot_transshipment_network has a position for.
PosNodes ==
    {"F1", "F2", "F3", "F4", "F5", "XD1", "XD2",
     "DC1", "DC2", "DC3", "DC4", "DC5"}

\* Only the complete three-tier arc set.
CompleteKeySets(n) == {ThreeTier(n)}

\* The state at the call; the keys of cost are any of the key sets, or only
\* the complete one.
InitKeys(completeOnly) ==
    /\ nodes \in NodeConfigs
    /\ supply \in [Range(nodes.sources) -> 0..MaxSupply]
    /\ demand \in [Range(nodes.destinations) -> 0..MaxDemand]
    /\ \E K \in (IF completeOnly THEN CompleteKeySets(nodes) ELSE KeySets(nodes)) :
          cost \in [K -> 0..MaxCost]
    /\ plot_network \in BOOLEAN
    /\ plot_bar_chart \in BOOLEAN
    /\ pc = "variables"
    /\ flow = << >>
    /\ objective = << >>
    /\ constraints = << >>
    /\ varValue = << >>
    /\ results_df = {}
    /\ total_cost = 0
    /\ ret = {}
    /\ err = "none"
    /\ trace = << >>

\* Any of the key sets.
Init == InitKeys(FALSE)

\* Well-formed inputs: every three-tier arc has a cost and no other pair has.
InitComplete == InitKeys(TRUE)

----------------------------------------------------------------------------
\* Building the linear program

\* f"flow_{i}_{j}"
VarName(key) == "flow_" \o key[1] \o "_" \o key[2]

\* pulp.LpVariable(name, lowBound=0, cat='Continuous')
LpVariable(key) == [name |-> VarName(key), lowBound |-> 0]

\* A variable used as an expression.
VarExpr(key) == [v \in {key} |-> 1]

\* Faulty variant: the lookup written flow.get((i, j), 0), which never raises.
KeyErrors_Get(keys) == {}

\* The lookups flow[i, j] among keys that raise KeyError.
KeyErrors(keys) == {key \in keys : key \notin DOMAIN flow}

\* flow[i, j] as a term of a sum (a key that is no variable raised before).
FlowTerm(key) == IF key \in DOMAIN flow THEN VarExpr(key) ELSE << >>

\* pulp.lpSum over the terms t[key], key in S.
RECURSIVE LpSum(_, _)
LpSum(S, t) ==
    IF S = {} THEN << >>
    ELSE LET v == CHOOSE w \in S : TRUE IN AddExpr(t[v], LpSum(S \ {v}, t))

\* Faulty variant: the problem created with pulp.LpMaximize.
ProblemSense_Max == "max"

\* The direction of optimisation: pulp.LpMinimize.
ProblemSense == "min"

\* Faulty variant: the objective without the cost factor, lpSum(flow[i, j] ...).
ObjectiveExpr_UnitCosts ==
    LpSum(DOMAIN cost, [key \in DOMAIN cost |-> FlowTerm(key)])

\* lpSum(cost[i, j] * flow[i, j] for (i, j) in cost)
ObjectiveExpr ==
    LpSum(DOMAIN cost,
          [key \in DOMAIN cost |-> ScaleExpr(cost[key], FlowTerm(key))])

\* Faulty variant: each source limited by the supply of all sources together.
SupplyConstraint_TotalSupply(i) ==
    LET keys == {i} \X Transshipments
    IN  [name |-> "Supply_" \o i,
         expr |-> LpSum(keys, [key \in keys |-> FlowTerm(key)]),
         sense |-> "<=",
         rhs |-> SumFn(Sources, supply)]

\* Faulty variant: the sum taken over every key of cost that leaves the source.
SupplyConstraint_AllKeysFrom(i) ==
    LET keys == {key \in DOMAIN cost : key[1] = i}
    IN  [name |-> "Supply_" \o i,
         expr |-> LpSum(keys, [key \in keys |-> FlowTerm(key)]),
         sense |-> "<=",
         rhs |-> supply[i]]

\* lpSum(flow[i, j] for j in transshipments) <= supply[i], "Supply_i"
SupplyConstraint(i) ==
    LET keys == {i} \X Transshipments
    IN  [name |-> "Supply_" \o i,
         expr |-> LpSum(keys, [key \in keys |-> FlowTerm(key)]),
         sense |-> "<=",
         rhs |-> supply[i]]

\* Faulty variant: the demand row written with <= like the supply rows.
DemandConstraint_AtMost(j) ==
    LET keys == Transshipments \X {j}
    IN  [name |-> "Demand_" \o j,
         expr |-> LpSum(keys, [key \in keys |-> FlowTerm(key)]),
         sense |-> "<=",
         rhs |-> demand[j]]

\* lpSum(flow[i, j] for i in transshipments) >= demand[j], "Demand_j"
DemandConstraint(j) ==
    LET keys == Transshipments \X {j}
    IN  [name |-> "Demand_" \o j,
         expr |-> LpSum(keys, [key \in keys |-> FlowTerm(key)]),
         sense |-> ">=",
         rhs |-> demand[j]]

\* Faulty variant: the balance row written with >=, so that a node may keep flow.
TransshipmentConstraint_AtLeast(k) ==
    LET ins == Sources \X {k}
        outs == {k} \X Destinations
    IN  [name |-> "Transshipment_" \o k,
         expr |-> AddExpr(LpSum(ins, [key \in ins |-> FlowTerm(key)]),
                          ScaleExpr(-1, LpSum(outs, [key \in outs |-> FlowTerm(key)]))),
         sense |-> ">=",
         rhs |-> 0]

\* lpSum(flow[i, k] for i in sources) == lpSum(flow[k, j] for j in destinations)
TransshipmentConstraint(k) ==
    LET ins == Sources \X {k}
        outs == {k} \X Destinations
    IN  [name |-> "Transshipment_" \o k,
         expr |-> AddExpr(LpSum(ins, [key \in ins |-> FlowTerm(key)]),
                          ScaleExpr(-1, LpSum(outs, [key \in outs |-> FlowTerm(key)]))),
         sense |-> "==",
         rhs |-> 0]

\* An exception leaves the function: nothing is returned.
Raise(e) ==
    /\ err' = e
    /\ pc' = "raised"

\* line 31: one variable per key of cost
CreateVariables ==
    /\ pc = "variables"
    /\ flow' = [key \in DOMAIN cost |-> LpVariable(key)]
    /\ pc' = "objective"
    /\ UNCHANGED <<inputs, objective, constraints, varValue, results_df,
                   total_cost, ret, err, trace>>

\* line 34
SetObjective ==
    /\ pc = "objective"
    /\ objective' = ObjectiveExpr
    /\ pc' = "supply"
    /\ UNCHANGED <<inputs, flow, constraints, varValue, results_df, total_cost,
                   ret, err, trace>>

\* lines 37-38
AddSupplyConstraints ==
    /\ pc = "supply"
    /\ IF KeyErrors(Sources \X Transshipments) # {}
       THEN /\ Raise("KeyError")
            /\ UNCHANGED constraints
       ELSE /\ constraints' = constraints \o
                   [n \in 1..Len(nodes.sources) |-> SupplyConstraint(nodes.sources[n])]
            /\ pc' = "demand"
            /\ UNCHANGED err
    /\ UNCHANGED <<inputs, flow, objective, varValue, results_df, total_cost,
                   ret, trace>>

\* lines 41-42
AddDemandConstraints ==
    /\ pc = "demand"
    /\ IF KeyErrors(Transshipments \X Destinations) # {}
       THEN /\ Raise("KeyError")
            /\ UNCHANGED constraints
       ELSE /\ constraints' = constraints \o
                   [n \in 1..Len(nodes.destinations) |->
                       DemandConstraint(nodes.destinations[n])]
            /\ pc' = "transshipment"
            /\ UNCHANGED err
    /\ UNCHANGED <<inputs, flow, objective, varValue, results_df, total_cost,
                   ret, trace>>

\* lines 45-46
AddTransshipmentConstraints ==
    /\ pc = "transshipment"
    /\ IF KeyErrors((Sources \X Transshipments) \cup (Transshipments \X Destinations)) # {}
       THEN /\ Raise("KeyError")
            /\ UNCHANGED constraints
       ELSE /\ constraints' = constraints \o
                   [n \in 1..Len(nodes.transshipments) |->
                       TransshipmentConstraint(nodes.transshipments[n])]
            /\ pc' = "solve"
            /\ UNCHANGED err
    /\ UNCHANGED <<inputs, flow, objective, varValue, results_df, total_cost,
                   ret, trace>>

----------------------------------------------------------------------------
\* The solver call

\* problem.variables(): the variables of the objective and of the constraints.
ProblemVars ==
    DOMAIN objective
        \cup UNION {DOMAIN constraints[n].expr : n \in 1..Len(constraints)}

\* Whether the assignment x satisfies the constraint c.
Satisfies(x, c) ==
    LET lhs == Eval(c.expr, x)
    IN  CASE c.sense = "<=" -> lhs <= c.rhs
          [] c.sense = ">=" -> lhs >= c.rhs
          [] c.sense = "==" -> lhs = c.rhs

\* No basic solution of the problem has a coordinate above the sum of the
\* right-hand sides of its <= rows: the search box of the solver model.
SearchBound ==
    LET le == {n \in 1..Len(constraints) : constraints[n].sense = "<="}
    IN  SumFn(le, [n \in le |-> constraints[n].rhs])

SearchBox == [ProblemVars -> 0..SearchBound]

\* The points of the box within the variables' bounds and the constraints.
FeasibleSolutions ==
    {y : y \in {x \in SearchBox :
                  /\ \A v \in ProblemVars : x[v] >= flow[v].lowBound
                  /\ \A n \in 1..Len(constraints) : Satisfies(x, constraints[n])}}

\* The feasible points with the best objective value.
OptimalSolutions(F) ==
    LET vals == {Eval(objective, x) : x \in F}
        best == IF ProblemSense = "min"
                THEN CHOOSE m \in vals : \A n \in vals : m <= n
                ELSE CHOOSE m \in vals : \A n \in vals : m >= n
    IN  {x \in F : Eval(objective, x) = best}

\* What problem.solve() reports; the code does not look at it.
SolveStatus(F) == IF F = {} THEN "Infeasible" ELSE "Optimal"

\* Faulty variant: a status other than Optimal turned into an exception.
StatusError_RaiseUnlessOptimal(status) ==
    IF status = "Optimal" THEN "none" ELSE "PulpSolverError"

\* What the code does with the status: nothing, whatever it is.
StatusError(status) == "none"

\* line 49: problem.solve()
Solve ==
    /\ pc = "solve"
    /\ trace' = Append(trace, "solve")
    /\ LET F == FeasibleSolutions
       IN  IF StatusError(SolveStatus(F)) # "none"
           THEN /\ Raise(StatusError(SolveStatus(F)))
                /\ UNCHANGED varValue
           ELSE /\ IF F # {}
                   THEN \E x \in OptimalSolutions(F) : varValue' = x
                   ELSE \E x \in SearchBox : varValue' = x
                /\ pc' = "results"
                /\ UNCHANGED err
    /\ UNCHANGED <<inputs, flow, objective, constraints, results_df, total_cost,
                   ret>>

\* Faulty variant: only the variables that carry flow are reported.
ResultRows_NonZero ==
    {<<flow[v].name, varValue[v]>> : v \in {w \in ProblemVars : varValue[w] # 0}}

\* (v.name, v.varValue) for v in problem.variables()
ResultRows == {<<flow[v].name, varValue[v]>> : v \in ProblemVars}

\* pulp.value(problem.objective)
ObjectiveValue == Eval(objective, varValue)

\* lines 52-56
StoreResults ==
    /\ pc = "results"
    /\ results_df' = ResultRows
    /\ total_cost' = ObjectiveValue
    /\ pc' = "plot_network"
    /\ UNCHANGED <<inputs, flow, objective, constraints, varValue, ret, err,
                   trace>>

----------------------------------------------------------------------------
\* Plotting

\* The nodes of the graph: the listed ones and the ends of every cost key.
GraphNodes ==
    Sources \cup Transshipments \cup Destinations
        \cup {key[1] : key \in DOMAIN cost} \cup {key[2] : key \in DOMAIN cost}

\* The exception plot_transshipment_network ends with, "none" if it returns:
\* a node without a position stops the drawing, a flow value of None cannot
\* be formatted with .1f.
PlotNetworkError ==
    IF GraphNodes \ PosNodes # {} THEN "NetworkXError"
    ELSE IF DOMAIN cost \ DOMAIN varValue # {} THEN "TypeError"
    ELSE "none"

\* What plot_transshipment_network writes: nothing of the caller's.
PlotNetworkEffect == UNCHANGED <<inputs, varValue, results_df, total_cost>>

\* lines 59-60
PlotNetwork ==
    /\ pc = "plot_network"
    /\ IF plot_network
       THEN /\ trace' = Append(trace, "plot_transshipment_network")
            /\ IF PlotNetworkError # "none"
               THEN Raise(PlotNetworkError)
               ELSE pc' = "plot_bar_chart" /\ UNCHANGED err
       ELSE /\ pc' = "plot_bar_chart"
            /\ UNCHANGED <<err, trace>>
    /\ PlotNetworkEffect
    /\ UNCHANGED <<flow, objective, constraints, ret>>

\* The bars of one chart and the heights given to them differ in number when
\* a key leaves a source or a transshipment node for a node of another tier.
BarShapeMismatch ==
    \E key \in DOMAIN cost :
        \/ key[1] \in Sources /\ key[2] \notin Transshipments
        \/ key[1] \in Transshipments /\ key[2] \notin Destinations

\* Faulty variant: the chart's running total (bottom += values) written back into
\* the reported values.
PlotBarChartEffect_Accumulate ==
    /\ results_df' = {<<row[1], row[2] + 1>> : row \in results_df}
    /\ UNCHANGED <<inputs, varValue, total_cost>>

\* What plot_stacked_bar_chart writes: nothing of the caller's.
PlotBarChartEffect == UNCHANGED <<inputs, varValue, results_df, total_cost>>

\* lines 63-64; whether the charting library accepts mismatched shapes is its
\* own business, so both outcomes are possible.
PlotBarChart ==
    /\ pc = "plot_bar_chart"
    /\ IF plot_bar_chart
       THEN /\ trace' = Append(trace, "plot_stacked_bar_chart")
            /\ \/ pc' = "return" /\ UNCHANGED err
               \/ BarShapeMismatch /\ Raise("ValueError")
       ELSE /\ pc' = "return"
            /\ UNCHANGED <<err, trace>>
    /\ PlotBarChartEffect
    /\ UNCHANGED <<flow, objective, constraints, ret>>

\* line 66
Return ==
    /\ pc = "return"
    /\ ret' = {[results_df |-> results_df, total_cost |-> total_cost]}
    /\ pc' = "done"
    /\ UNCHANGED <<inputs, flow, objective, constraints, varValue, results_df,
                   total_cost, err, trace>>

Next ==
    \/ CreateVariables
    \/ SetObjective
    \/ AddSupplyConstraints
    \/ AddDemandConstraints
    \/ AddTransshipmentConstraints
    \/ Solve
    \/ StoreResults
    \/ PlotNetwork
    \/ PlotBarChart
    \/ Return

Spec == Init /\ [][Next]_vars

SpecComplete == InitComplete /\ [][Next]_vars

----------------------------------------------------------------------------
\* The transshipment problem itself, stated on the network (not on the
\* problem object the code builds): what the claims compare the result with.

TotalSupply == SumFn(Sources, supply)
TotalDemand == SumFn(Destinations, demand)

\* Every assignment of a flow to each key of cost, up to the total supply.
Assignments == [DOMAIN cost -> 0..TotalSupply]

\* What leaves source i, what reaches destination j, what enters and leaves k.
ShippedFrom(f, i) == SumFn(Transshipments, [k \in Transshipments |-> f[<<i, k>>]])
DeliveredTo(f, j) == SumFn(Transshipments, [k \in Transshipments |-> f[<<k, j>>]])
InflowOf(f, k) == SumFn(Sources, [i \in Sources |-> f[<<i, k>>]])
OutflowOf(f, k) == SumFn(Destinations, [j \in Destinations |-> f[<<k, j>>]])

WithinSupply(f) == \A i \in Sources : ShippedFrom(f, i) <= supply[i]
MeetsDemand(f) == \A j \in Destinations : DeliveredTo(f, j) >= demand[j]
ExactDemand(f) == \A j \in Destinations : DeliveredTo(f, j) = demand[j]
Conserved(f) == \A k \in Transshipments : InflowOf(f, k) = OutflowOf(f, k)

Admissible(f) == WithinSupply(f) /\ MeetsDemand(f) /\ Conserved(f)

CostOf(f) == SumFn(DOMAIN cost, [a \in DOMAIN cost |-> cost[a] * f[a]])

IsComplete == ThreeTier(nodes) \subseteq DOMAIN cost
InstanceFeasible == IsComplete /\ \E f \in Assignments : Admissible(f)

\* The call has returned; what it returned.
Returned == CHOOSE r \in ret : TRUE
RowsOf(a) == {row \in Returned.results_df : row[1] = VarName(a)}
HasRow(a) == RowsOf(a) # {}
ReturnedValue(a) == (CHOOSE row \in RowsOf(a) : TRUE)[2]
ReturnedFlow == [a \in DOMAIN cost |-> ReturnedValue(a)]

ReturnedFeasible == pc = "done" /\ InstanceFeasible

----------------------------------------------------------------------------
\* Claims

\* C1: for a feasible instance with a complete three-tier arc set, the
\* returned total_cost is the minimum of sum(cost * flow) over all
\* non-negative assignments within supply, demand and conservation: some
\* admissible assignment costs exactly total_cost and none costs less.
C1_TotalCostIsMinimum ==
    ReturnedFeasible =>
        LET A == {f \in Assignments : Admissible(f)}
        IN  /\ \E f \in A : CostOf(f) = Returned.total_cost
            /\ \A f \in A : CostOf(f) >= Returned.total_cost

\* C1 witness: a returned optimum of positive cost that some admissible
\* assignment exceeds.
C1_Witness ==
    /\ ReturnedFeasible
    /\ Returned.total_cost > 0
    /\ \E f \in Assignments : Admissible(f) /\ CostOf(f) > Returned.total_cost

\* C2: in the returned assignment of a feasible instance every flow is >= 0
\* and no source ships more than its supply.
C2_NonNegativeWithinSupply ==
    ReturnedFeasible =>
        /\ \A a \in DOMAIN cost : ReturnedValue(a) >= 0
        /\ WithinSupply(ReturnedFlow)

\* C2 witness: a source that could ship more for free is held at its supply.
C2_Witness ==
    /\ ReturnedFeasible
    /\ \E i \in Sources :
          /\ supply[i] > 0
          /\ ShippedFrom(ReturnedFlow, i) = supply[i]
          /\ TotalDemand < TotalSupply
          /\ \A a \in DOMAIN cost : cost[a] = 0

\* C3: in the returned assignment of a feasible instance every destination
\* receives at least its demand.
C3_DemandIsLowerBound ==
    ReturnedFeasible => MeetsDemand(ReturnedFlow)

\* C3 witness: a destination with a positive demand that receives more.
C3_Witness ==
    /\ ReturnedFeasible
    /\ \E j \in Destinations :
          demand[j] > 0 /\ DeliveredTo(ReturnedFlow, j) > demand[j]

\* C4: in the returned assignment of a feasible instance the inflow of every
\* transshipment node equals its outflow.
C4_FlowConserved ==
    ReturnedFeasible => Conserved(ReturnedFlow)

\* C4 witness: one of two transshipment nodes carries flow, from a source
\* that is left with supply.
C4_Witness ==
    /\ ReturnedFeasible
    /\ Len(nodes.transshipments) = 2
    /\ \E k \in Transshipments : InflowOf(ReturnedFlow, k) > 0
    /\ TotalDemand < TotalSupply

\* C5 as stated: results_df has exactly one row for each key of cost, and
\* total_cost is the sum over all keys of cost times the reported Value.
C5_AsStated ==
    pc = "done" =>
        /\ \A a \in DOMAIN cost : Cardinality(RowsOf(a)) = 1
        /\ Cardinality(Returned.results_df) = Cardinality(DOMAIN cost)
        /\ Returned.total_cost = CostOf(ReturnedFlow)

\* The keys whose variable is part of the problem: the three-tier arcs (in a
\* constraint) and the keys of non-zero cost (in the objective).
ReportedKeys == {a \in DOMAIN cost : a \in ThreeTier(nodes) \/ cost[a] # 0}

\* C5 amended: results_df has exactly one row for each key of cost that is a
\* three-tier arc or has a non-zero cost, and none for any other key of cost;
\* total_cost is the sum over the keys with a row of cost times the reported
\* Value.
C5_RowsAndTotalCost ==
    pc = "done" =>
        /\ \A a \in ReportedKeys : Cardinality(RowsOf(a)) = 1
        /\ \A a \in DOMAIN cost \ ReportedKeys : RowsOf(a) = {}
        /\ Returned.total_cost =
               SumFn(ReportedKeys,
                     [a \in ReportedKeys |-> cost[a] * ReturnedValue(a)])

\* C5 witness: a result of positive cost with a row of positive flow, for a
\* cost dict with a key outside the three tiers.
C5_Witness ==
    /\ pc = "done"
    /\ DOMAIN cost # ThreeTier(nodes)
    /\ Returned.total_cost > 0
    /\ \E a \in ReportedKeys : ReturnedValue(a) > 0

PlotCalls == {"plot_transshipment_network", "plot_stacked_bar_chart"}

\* The keys of cost outside the three-tier structure.
ExtraKeys == DOMAIN cost \ ThreeTier(nodes)

C7_InfeasibleStillReturns ==
    (pc \in {"raised", "done"} /\ IsComplete /\ ~InstanceFeasible) =>
        /\ pc = "raised" => (trace # << >> /\ trace[Len(trace)] \in PlotCalls)
        /\ (~plot_network /\ ~plot_bar_chart) => pc # "raised"
        /\ pc = "done" =>
              /\ Cardinality(ret) = 1
              /\ DOMAIN Returned = {"results_df", "total_cost"}
              /\ \A a \in DOMAIN cost : Cardinality(RowsOf(a)) = 1
              /\ Returned.total_cost \in Int

\* C7 witness: the call returned for an instance whose demand exceeds its
\* supply.
C7_Witness ==
    /\ pc = "done"
    /\ IsComplete
    /\ TotalSupply < TotalDemand
    /\ ~InstanceFeasible

\* A step taken at one of the two plot positions writes none of these.
PlotStepKeepsResult ==
    (pc \in {"plot_network", "plot_bar_chart"}) =>
        UNCHANGED <<inputs, flow, objective, constraints, varValue, results_df,
                    total_cost, ret>>

C9_ExactDeliveryWhenCostsPositive ==
    (ReturnedFeasible /\ \A a \in DOMAIN cost : cost[a] > 0) =>
        LET E == {f \in Assignments :
                     WithinSupply(f) /\ ExactDemand(f) /\ Conserved(f)}
        IN  /\ ExactDemand(ReturnedFlow)
            /\ SumFn(Sources, [i \in Sources |-> ShippedFrom(ReturnedFlow, i)])
                   = TotalDemand
            /\ \E f \in E : CostOf(f) = Returned.total_cost
            /\ \A f \in E : CostOf(f) >= Returned.total_cost

\* C9 witness: a returned optimum for positive costs where supply exceeds a
\* positive demand.
C9_Witness ==
    /\ ReturnedFeasible
    /\ \A a \in DOMAIN cost : cost[a] > 0
    /\ 0 < TotalDemand
    /\ TotalDemand < TotalSupply

\* C10: when cost lacks a source->transshipment or a
\* transshipment->destination key, the call ends with a KeyError raised
\* while the constraints are built: the solver is never called, nothing is
\* plotted, nothing is returned.
C10_MissingArcRaisesKeyError ==
    ~IsComplete =>
        /\ pc \in {"variables", "objective", "supply", "demand", "raised"}
        /\ pc = "raised" => err = "KeyError"
        /\ pc # "raised" => err = "none"
        /\ trace = << >>
        /\ varValue = << >>
        /\ ret = {}

\* C10 witness: the KeyError raised by the demand loop for a missing
\* transshipment->destination key, the supply rows already built.
C10_Witness ==
    /\ ~IsComplete
    /\ pc = "raised"
    /\ err = "KeyError"
    /\ Len(constraints) > 0

====
